---- MODULE Spec2Model ----
(***************************************************************************)
(* Model of sknetwork/utils/parse.py: edgelist2adjacency and               *)
(* edgelist2biadjacency, which turn a list of edges into a scipy CSR       *)
(* matrix.                                                                 *)
(*                                                                         *)
(* Numbers.  A number is a pair <<a, b>> standing for a * 2^53 + b with b  *)
(* small.  The pair keeps the two widths the code depends on: the low 32   *)
(* bits kept by astype(np.int32) are those of b (2^53 is a multiple of     *)
(* 2^32), and the 53-bit significand of float64 rounds b once a # 0.       *)
(* A field of an edge record is [py |-> "int" | "float", a |-> _, b |-> _] *)
(* : the Python type of the field decides the dtype numpy infers.          *)
(***************************************************************************)
EXTENDS Integers, Sequences, FiniteSets, TLC

VARIABLES
    edgelist,    \* the caller's list of edge records
    pc,          \* "ready" before the call, "returned" after it, "recalled"
                 \* after a call on the reordered list
    fn,          \* the function called: "adjacency" or "biadjacency"
    undirected,  \* the undirected argument of edgelist2adjacency
    combine,     \* the combining operator of directed2undirected, "unset"
                 \* until directed2undirected is called
    result       \* what the call returned: a CSR matrix, or the exception

vars == <<edgelist, pc, fn, undirected, combine, result>>

\* ------------------------------------------------------------------ bounds
MaxLen == 3
RawLen == 2
MaxArity == 4

\* ----------------------------------------------------------------- numbers
Num(a, b) == <<a, b>>
Zero == Num(0, 0)
IntField(a, b) == [py |-> "int", a |-> a, b |-> b]
FloatField(a, b) == [py |-> "float", a |-> a, b |-> b]

Abs(x) == IF x < 0 THEN -x ELSE x
Sign(x) == IF x < 0 THEN -1 ELSE 1

RECURSIVE Log2Floor(_)
Log2Floor(m) == IF m <= 1 THEN 0 ELSE 1 + Log2Floor(m \div 2)

RECURSIVE Pow2(_)
Pow2(k) == IF k <= 0 THEN 1 ELSE 2 * Pow2(k - 1)

IsPow2(m) == Pow2(Log2Floor(m)) = m

\* Spacing of the float64 values around |x| = m * 2^53 + c (m >= 1, c small):
\* 2 in [2^53, 2^54), 4 in [2^54, 2^55), ...; 1 just below 2^53.
Ulp(m, c) ==
    IF c < 0 /\ IsPow2(m) THEN Pow2(Log2Floor(m)) ELSE 2 * Pow2(Log2Floor(m))

\* c rounded to a multiple of u, to the nearest, a tie to the even multiple.
RoundToMultiple(c, u) ==
    IF 2 * (c % u) < u THEN u * (c \div u)
    ELSE IF 2 * (c % u) > u THEN u * ((c \div u) + 1)
    ELSE IF (c \div u) % 2 = 0 THEN u * (c \div u)
    ELSE u * ((c \div u) + 1)

\* IEEE-754 round to nearest, ties to even, of the real number a * 2^53 + b.
RoundF64(x) ==
    IF x[1] = 0 THEN x
    ELSE Num(x[1], Sign(x[1]) * RoundToMultiple(Sign(x[1]) * x[2],
                                   Ulp(Abs(x[1]), Sign(x[1]) * x[2])))

NumLess(x, y) == x[1] < y[1] \/ (x[1] = y[1] /\ x[2] < y[2])

\* Mutant of AddValues: the later value replaces the earlier one.
AddValuesLastWins(dtype, x, y) == y

\* The sum of two stored values in the matrix's value type.
AddValues(dtype, x, y) ==
    IF dtype = "bool" THEN (x \/ y)
    ELSE IF dtype = "float64" THEN RoundF64(Num(x[1] + y[1], x[2] + y[2]))
    ELSE Num(x[1] + y[1], x[2] + y[2])

\* ------------------------------------------------------------------- numpy
Raise(exc) == [kind |-> "raise", exc |-> exc]

\* The Python type of the fields decides the dtype of np.array(edgelist).
InferDtype(records) ==
    IF \E i \in 1..Len(records) : \E j \in 1..Len(records[i]) :
           records[i][j].py = "float"
    THEN "float64" ELSE "int64"

\* An int becomes a float64 by rounding; an int64 is kept as it is.
ToDtype(dtype, f) ==
    IF dtype = "float64" THEN RoundF64(Num(f.a, f.b)) ELSE Num(f.a, f.b)

\* The dtype of a 2-d array of records of one length.
ArrayDtype(records) ==
    IF Len(records[1]) = 0 THEN "float64" ELSE InferDtype(records)

ArrayOf(dtype, records) ==
    [kind |-> "array", ndim |-> 2, nrows |-> Len(records),
     ncols |-> Len(records[1]), dtype |-> dtype,
     cells |-> [i \in 1..Len(records) |->
                  [j \in 1..Len(records[1]) |-> ToDtype(dtype, records[i][j])]]]

\* np.array(edgelist): an empty list is a 1-d array of shape (0,); records
\* of one length k give a 2-d array of shape (m, k); records of different
\* lengths are refused (ValueError: inhomogeneous shape).
NpArray(records) ==
    IF Len(records) = 0
    THEN [kind |-> "array", ndim |-> 1, nrows |-> 0, ncols |-> 0,
          dtype |-> "float64", cells |-> <<>>]
    ELSE IF \E i \in 1..Len(records) : Len(records[i]) # Len(records[1])
    THEN Raise("ValueError")
    ELSE ArrayOf(ArrayDtype(records), records)

\* edges[:, j] (j is 0-based as in the source).
Column(edges, j) == [i \in 1..edges.nrows |-> edges.cells[i][j + 1]]

\* edges[:, j] raises IndexError on a 1-d array and on a column that is not there.
ColumnExists(edges, j) == edges.ndim = 2 /\ j < edges.ncols

IntMin == -2147483647 - 1

\* What a float64 outside the int32 range may become (the C cast is
\* undefined): the "integer indefinite" value, or the low 32 bits.
CastOutcomes == {"indefinite", "wrap"}

\* x.astype(np.int32) of one element: an int64 keeps its low 32 bits; a
\* float64 in range is truncated, one out of range is undefined.
AsTypeInt32(dtype, x, outcome) ==
    IF dtype = "int64" THEN x[2]
    ELSE IF x[1] = 0 THEN x[2]
    ELSE IF outcome = "indefinite" THEN IntMin ELSE x[2]

SeqMax(s) == CHOOSE m \in {s[i] : i \in 1..Len(s)} :
                 \A i \in 1..Len(s) : s[i] <= m

\* np.ones_like(row, dtype=bool)
OnesLikeBool(row) == [i \in 1..Len(row) |-> TRUE]

\* ------------------------------------------------------ scipy.sparse (CSR)
\* coo_tocsr: the entries of row r, in the order of the input.
RowEntries(row, col, data, r) ==
    LET F[i \in 0..Len(row)] ==
            IF i = 0 THEN <<>>
            ELSE IF row[i] = r THEN Append(F[i - 1], <<col[i], data[i]>>)
            ELSE F[i - 1]
    IN  F[Len(row)]

\* Mutant of InsertByColumn: the entry is put first, whatever its column.
InsertFirst(s, e) == <<e>> \o s

\* One step of the (stable) sort of a row by column index.
InsertByColumn(s, e) ==
    LET k == Cardinality({i \in 1..Len(s) : s[i][1] <= e[1]})
    IN  SubSeq(s, 1, k) \o <<e>> \o SubSeq(s, k + 1, Len(s))

\* Mutant of SortIndices: the row is left in the order of the input.
SortIndicesSkipped(s) == s

\* csr_sort_indices
SortIndices(s) ==
    LET F[i \in 0..Len(s)] ==
            IF i = 0 THEN <<>> ELSE InsertByColumn(F[i - 1], s[i])
    IN  F[Len(s)]

\* Mutant of MergeEntry: a repeated coordinate is stored again.
MergeEntryKeepBoth(dtype, acc, e) == Append(acc, e)

\* One step of csr_sum_duplicates: an entry of the column of the last
\* stored entry is added to it, another one is stored after it.
MergeEntry(dtype, acc, e) ==
    IF Len(acc) > 0 /\ acc[Len(acc)][1] = e[1]
    THEN [acc EXCEPT ![Len(acc)] =
             <<e[1], AddValues(dtype, acc[Len(acc)][2], e[2])>>]
    ELSE Append(acc, e)

\* csr_sum_duplicates on a sorted row: consecutive entries of one column are
\* added, left to right, into one stored entry.
SumDuplicates(dtype, s) ==
    LET F[i \in 0..Len(s)] ==
            IF i = 0 THEN <<>> ELSE MergeEntry(dtype, F[i - 1], s[i])
    IN  F[Len(s)]

\* The stored (column, value) pairs of every row 0..n_rows-1.
CsrRows(dtype, data, row, col, nRows) ==
    [r \in 1..nRows |->
        SumDuplicates(dtype, SortIndices(RowEntries(row, col, data, r - 1)))]

RECURSIVE Flatten(_)
Flatten(rows) ==
    IF Len(rows) = 0 THEN <<>> ELSE Head(rows) \o Flatten(Tail(rows))

NextPtr(ptr, n) == Append(ptr, ptr[Len(ptr)] + n)

\* indptr[0] = 0, indptr[r + 1] = indptr[r] + entries stored in row r.
IndPtr(rows) ==
    LET F[i \in 0..Len(rows)] ==
            IF i = 0 THEN <<0>> ELSE NextPtr(F[i - 1], Len(rows[i]))
    IN  F[Len(rows)]

MatrixOfEntries(dtype, ptr, flat, shape) ==
    [kind |-> "matrix", shape |-> shape, dtype |-> dtype, indptr |-> ptr,
     indices |-> [k \in 1..Len(flat) |-> flat[k][1]],
     data |-> [k \in 1..Len(flat) |-> flat[k][2]]]

MatrixOfRows(dtype, rows, shape) ==
    MatrixOfEntries(dtype, IndPtr(rows), Flatten(rows), shape)

\* sparse.csr_matrix((data, (row, col)), shape=shape): the coordinates are
\* checked (ValueError on a negative dimension or index, or an index beyond
\* the shape), then converted to CSR in canonical format.
CsrMatrix(dtype, data, row, col, shape) ==
    IF shape[1] < 0 \/ shape[2] < 0 THEN Raise("ValueError")
    ELSE IF \E i \in 1..Len(row) : row[i] >= shape[1] \/ col[i] >= shape[2]
    THEN Raise("ValueError")
    ELSE IF \E i \in 1..Len(row) : row[i] < 0 \/ col[i] < 0
    THEN Raise("ValueError")
    ELSE MatrixOfRows(dtype, CsrRows(dtype, data, row, col, shape[1]), shape)

\* Reading a matrix: the positions of row i, whether (i, j) is stored, its value.
RowSlots(A, i) == (A.indptr[i + 1] + 1)..A.indptr[i + 2]
Stored(A, i, j) == \E k \in RowSlots(A, i) : A.indices[k] = j
ZeroOf(dtype) == IF dtype = "bool" THEN FALSE ELSE Zero
ValueAt(A, i, j) ==
    IF Stored(A, i, j)
    THEN A.data[CHOOSE k \in RowSlots(A, i) : A.indices[k] = j]
    ELSE ZeroOf(A.dtype)

\* ------------------------------------- sknetwork.utils.directed2undirected
\* The combining operators the symmetrization may use.
Policies == {"max", "sum", "or"}

Combine(policy, dtype, x, y) ==
    IF dtype = "bool" THEN (x \/ y)
    ELSE IF policy = "or" THEN (x # Zero \/ y # Zero)
    ELSE IF policy = "max" THEN (IF NumLess(x, y) THEN y ELSE x)
    ELSE AddValues(dtype, x, y)

\* Row i of the result gets column j when (i, j) or (j, i) is stored.
SymEntry(A, policy, acc, i, j) ==
    IF Stored(A, i, j) \/ Stored(A, j, i)
    THEN Append(acc, <<j, Combine(policy, A.dtype,
                                  ValueAt(A, i, j), ValueAt(A, j, i))>>)
    ELSE acc

SymRow(A, policy, i) ==
    LET F[j \in 0..A.shape[1]] ==
            IF j = 0 THEN <<>> ELSE SymEntry(A, policy, F[j - 1], i, j - 1)
    IN  F[A.shape[1]]

\* The entry-wise combination of a square matrix and its transpose: (i, j)
\* is stored when (i, j) or (j, i) is stored in the input.
directed2undirected(A, policy) ==
    MatrixOfRows(IF policy = "or" THEN "bool" ELSE A.dtype,
                 [r \in 1..A.shape[1] |-> SymRow(A, policy, r - 1)], A.shape)

\* ------------------------------------------------------------ the decoder
\* Lines 42 and 78: the two index columns as int32.  cast[<<i, j>>] is the
\* outcome of the cast of cell (i, j), read only when that cast is undefined.
IndexColumn(edges, j, cast) ==
    [i \in 1..edges.nrows |->
        AsTypeInt32(edges.dtype, edges.cells[i][j + 1], cast[<<i, j>>])]

\* Mutant of Coo: the weights are read only from records of 4 fields or more.
CooFourFields(edges, row, col) ==
    IF edges.ncols > 3
    THEN [kind |-> "coo", row |-> row, col |-> col,
          data |-> Column(edges, 2), dtype |-> edges.dtype]
    ELSE [kind |-> "coo", row |-> row, col |-> col,
          data |-> OnesLikeBool(row), dtype |-> "bool"]

\* Lines 44-47 and 80-83: the third column when there is one, else ones.
Coo(edges, row, col) ==
    IF edges.ncols > 2
    THEN [kind |-> "coo", row |-> row, col |-> col,
          data |-> Column(edges, 2), dtype |-> edges.dtype]
    ELSE [kind |-> "coo", row |-> row, col |-> col,
          data |-> OnesLikeBool(row), dtype |-> "bool"]

DecodeArray(edges, cast) ==
    IF edges.kind = "raise" THEN edges
    ELSE IF ~ColumnExists(edges, 0) \/ ~ColumnExists(edges, 1)
    THEN Raise("IndexError")
    ELSE Coo(edges, IndexColumn(edges, 0, cast), IndexColumn(edges, 1, cast))

\* Lines 41-47 and 77-83.
Decode(records, cast) == DecodeArray(NpArray(records), cast)

Max2(x, y) == IF x >= y THEN x ELSE y

\* Line 43: n = max(row.max(), col.max()) + 1
AdjacencySize(row, col) == Max2(SeqMax(row), SeqMax(col)) + 1
AdjacencyShape(row, col) == <<AdjacencySize(row, col), AdjacencySize(row, col)>>

\* Mutant of BiadjacencyShape: one bound for the two axes.
BiadjacencyShapeShared(row, col) == AdjacencyShape(row, col)

\* Line 79: n_row, n_col = row.max() + 1, col.max() + 1
BiadjacencyShape(row, col) == <<SeqMax(row) + 1, SeqMax(col) + 1>>

\* Mutant of Symmetrize: the flag is not read.
SymmetrizeNever(adjacency, undir, policy) == adjacency

\* Lines 49-50: if undirected: adjacency = directed2undirected(adjacency)
Symmetrize(adjacency, undir, policy) ==
    IF adjacency.kind = "raise" THEN adjacency
    ELSE IF undir THEN directed2undirected(adjacency, policy)
    ELSE adjacency

\* Line 48
AdjacencyOfCoo(coo) ==
    IF coo.kind = "raise" THEN coo
    ELSE CsrMatrix(coo.dtype, coo.data, coo.row, coo.col,
                   AdjacencyShape(coo.row, coo.col))

\* Line 84
BiadjacencyOfCoo(coo) ==
    IF coo.kind = "raise" THEN coo
    ELSE CsrMatrix(coo.dtype, coo.data, coo.row, coo.col,
                   BiadjacencyShape(coo.row, coo.col))

edgelist2adjacency(records, undir, cast, policy) ==
    Symmetrize(AdjacencyOfCoo(Decode(records, cast)), undir, policy)

\* Mutant of edgelist2biadjacency: an empty list gives a matrix of shape (0, 0).
edgelist2biadjacencyZeroShape(records, cast) ==
    IF Len(records) = 0 THEN MatrixOfRows("bool", <<>>, <<0, 0>>)
    ELSE BiadjacencyOfCoo(Decode(records, cast))

edgelist2biadjacency(records, cast) == BiadjacencyOfCoo(Decode(records, cast))

\* ------------------------------------------------------------- the inputs
\* The node identifiers 0 and 1.
Indices == {IntField(0, 0), IntField(0, 1)}
\* An int weight 1 and a float weight 2.0 ** 53.
Weights == {IntField(0, 1), FloatField(1, 0)}
Pairs == {<<r, c>> : r \in Indices, c \in Indices}
Triples == {<<r, c, w>> : r \in Indices, c \in Indices, w \in Weights}

ListsOf(S, lo, hi) == UNION {[1..n -> S] : n \in lo..hi}

\* The empty list, and the lists of pairs and of triplets of the docstring.
EdgeLists == ListsOf(Pairs, 0, MaxLen) \cup ListsOf(Triples, 1, MaxLen)

\* Fields outside the documented input: -1, 0, 1 and 2^53 + 1 as indices.
RawIndices == {IntField(0, -1), IntField(0, 0), IntField(0, 1), IntField(1, 1)}
RawRecords ==
    UNION {{rec \in [1..k -> RawIndices \cup Weights] :
               \A j \in 1..k : IF j <= 2 THEN rec[j] \in RawIndices
                                        ELSE rec[j] \in Weights} : k \in 0..MaxArity}
RawLists == ListsOf(RawRecords, 0, RawLen)

\* The cells (i, j) of the two index columns.
IndexCells(records) == {<<i, j>> : i \in 1..Len(records), j \in 0..1}

\* The cast of cell (i, j) to int32 is undefined: a float64 beyond int32.
UndefinedCast(records, i, j) ==
    /\ j + 1 <= Len(records[i])
    /\ records[i][j + 1].a # 0
    /\ InferDtype(records) = "float64"

UndefinedCells(records) ==
    {c \in IndexCells(records) : UndefinedCast(records, c[1], c[2])}

CastsOver(cells, undefined) ==
    {[c \in cells |-> IF c \in undefined THEN f[c] ELSE "wrap"] :
       f \in [undefined -> CastOutcomes]}

\* One cast function per combination of outcomes of the undefined casts.
CastChoices(records) ==
    IF InferDtype(records) = "int64"
    THEN {[c \in IndexCells(records) |-> "wrap"]}
    ELSE CastsOver(IndexCells(records), UndefinedCells(records))

\* ------------------------------------------------------ the state machine
NoResult == [kind |-> "none"]

Convert(f, records, undir, cast, policy) ==
    IF f = "adjacency" THEN edgelist2adjacency(records, undir, cast, policy)
    ELSE edgelist2biadjacency(records, cast)

InitWith(lists) ==
    /\ edgelist \in lists
    /\ combine = "unset"
    /\ pc = "ready"
    /\ fn = "none"
    /\ undirected = FALSE
    /\ result = NoResult

Init == InitWith(EdgeLists)
InitRaw == InitWith(RawLists)

\* A caller converts its edge list to a directed adjacency matrix.
CallDirected ==
    /\ pc = "ready"
    /\ \E cast \in CastChoices(edgelist) :
          result' = edgelist2adjacency(edgelist, FALSE, cast, combine)
    /\ undirected' = FALSE
    /\ fn' = "adjacency"
    /\ pc' = "returned"
    /\ UNCHANGED <<edgelist, combine>>

\* A caller converts its edge list to an undirected adjacency matrix; the
\* combining operator of directed2undirected is fixed from here on.
CallUndirected ==
    /\ pc = "ready"
    /\ \E policy \in Policies, cast \in CastChoices(edgelist) :
          /\ result' = edgelist2adjacency(edgelist, TRUE, cast, policy)
          /\ combine' = policy
    /\ undirected' = TRUE
    /\ fn' = "adjacency"
    /\ pc' = "returned"
    /\ UNCHANGED edgelist

\* A caller converts its edge list to a biadjacency matrix.
CallBiadjacency ==
    /\ pc = "ready"
    /\ \E cast \in CastChoices(edgelist) :
          result' = edgelist2biadjacency(edgelist, cast)
    /\ fn' = "biadjacency"
    /\ pc' = "returned"
    /\ UNCHANGED <<edgelist, undirected, combine>>

SwapRecords(records, i) ==
    [records EXCEPT ![i] = records[i + 1], ![i + 1] = records[i]]

Returned == pc \in {"returned", "recalled"}

\* The caller exchanges two neighbouring records and converts the list again
\* with the same function and flag.
Recall ==
    /\ Returned
    /\ \E i \in 1..(Len(edgelist) - 1) :
          LET swapped == SwapRecords(edgelist, i)
          IN  /\ edgelist' = swapped
              /\ \E cast \in CastChoices(swapped) :
                    result' = Convert(fn, swapped, undirected, cast, combine)
    /\ pc' = "recalled"
    /\ UNCHANGED <<fn, undirected, combine>>

Next == CallDirected \/ CallUndirected \/ CallBiadjacency \/ Recall

Spec == Init /\ [][Next]_vars
SpecRaw == InitRaw /\ [][Next]_vars

\* ------------------------------------------------- reading the edge list
\* The row and the column index of record i, and the coordinates of the list.
RowIndex(i) == edgelist[i][1].b
ColIndex(i) == edgelist[i][2].b
Coords == {<<RowIndex(i), ColIndex(i)>> : i \in 1..Len(edgelist)}
RecordsAt(r, c) ==
    {i \in 1..Len(edgelist) : RowIndex(i) = r /\ ColIndex(i) = c}
NoDuplicates == Cardinality(Coords) = Len(edgelist)
Weighted == Len(edgelist) > 0 /\ Len(edgelist[1]) = 3
SomeFloat ==
    \E i \in 1..Len(edgelist) : \E j \in 1..Len(edgelist[i]) :
        edgelist[i][j].py = "float"
SetMax(S) == CHOOSE m \in S : \A x \in S : x <= m
MaxRow == SetMax({RowIndex(i) : i \in 1..Len(edgelist)})
MaxCol == SetMax({ColIndex(i) : i \in 1..Len(edgelist)})

\* What was returned.
IsMatrix == Returned /\ result.kind = "matrix"
Directed == fn = "biadjacency" \/ (fn = "adjacency" /\ ~undirected)
Nnz == Len(result.indices)
Cells ==
    {<<r, c>> : r \in 0..(result.shape[1] - 1), c \in 0..(result.shape[2] - 1)}
Slots(r, c) == {k \in RowSlots(result, r) : result.indices[k] = c}

\* ---------------------------------------------------------------- C1
\* C1: for a non-empty edge list the adjacency matrix is square of size
\* max(all indices) + 1, and the biadjacency matrix has max(rows) + 1 rows and
\* max(cols) + 1 columns, each axis on its own.
ShapeCorrect ==
    (Returned /\ Len(edgelist) > 0) =>
        /\ result.kind = "matrix"
        /\ fn = "adjacency" =>
              result.shape = <<SetMax({MaxRow, MaxCol}) + 1,
                               SetMax({MaxRow, MaxCol}) + 1>>
        /\ fn = "biadjacency" => result.shape = <<MaxRow + 1, MaxCol + 1>>

\* A biadjacency matrix that is not square, and whose rows are fewer.
ShapeWitness ==
    /\ IsMatrix
    /\ fn = "biadjacency"
    /\ MaxRow < MaxCol
    /\ result.shape = <<MaxRow + 1, MaxCol + 1>>

\* ---------------------------------------------------------------- C2
\* The exact sum of the weights of the records at (r, c).
ExactSum(r, c) ==
    LET F[i \in 0..Len(edgelist)] ==
            IF i = 0 THEN Zero
            ELSE IF i \in RecordsAt(r, c)
            THEN Num(F[i - 1][1] + edgelist[i][3].a,
                     F[i - 1][2] + edgelist[i][3].b)
            ELSE F[i - 1]
    IN  F[Len(edgelist)]

RoundIn(dtype, x) == IF dtype = "float64" THEN RoundF64(x) ELSE x

\* The weights of the records at (r, c) added one at a time in the order of
\* the records, each partial sum rounded to the value type.
RunningSum(dtype, r, c) ==
    LET F[i \in 0..Len(edgelist)] ==
            IF i = 0 THEN Zero
            ELSE IF i \in RecordsAt(r, c)
            THEN RoundIn(dtype, Num(F[i - 1][1] + edgelist[i][3].a,
                                    F[i - 1][2] + edgelist[i][3].b))
            ELSE F[i - 1]
    IN  F[Len(edgelist)]

OneEntryPerCoordinate ==
    \A cell \in Cells :
        Cardinality(Slots(cell[1], cell[2])) =
            IF cell \in Coords THEN 1 ELSE 0

EdgeCount ==
    (IsMatrix /\ Directed) =>
        /\ Nnz = Cardinality(Coords)
        /\ NoDuplicates => Nnz = Len(edgelist)

\* Three records on two coordinates give two stored entries.
EdgeCountWitness ==
    /\ IsMatrix /\ Directed
    /\ Len(edgelist) = 3
    /\ Cardinality(Coords) = 2
    /\ Nnz = 2

\* ---------------------------------------------------------------- C4
OffDiagonal == {cell \in Coords : cell[1] # cell[2]}
NoSymmetricPair == \A cell \in OffDiagonal : <<cell[2], cell[1]>> \notin Coords

\* C4: with undirected=true the adjacency matrix has the shape of the
\* directed one, is symmetric, and stores (i, j) iff (i, j) or (j, i) is an
\* edge, so nnz is twice the off-diagonal edges plus the diagonal ones when
\* no coordinate and no symmetric pair is repeated; with undirected=false
\* the matrix stores the edges as given and no mirror.
Symmetrization ==
    (IsMatrix /\ fn = "adjacency") =>
        /\ result.shape = <<SetMax({MaxRow, MaxCol}) + 1,
                            SetMax({MaxRow, MaxCol}) + 1>>
        /\ undirected =>
              /\ \A cell \in Cells :
                    /\ Stored(result, cell[1], cell[2]) <=>
                          (cell \in Coords \/ <<cell[2], cell[1]>> \in Coords)
                    /\ Stored(result, cell[1], cell[2]) <=>
                          Stored(result, cell[2], cell[1])
                    /\ ValueAt(result, cell[1], cell[2]) =
                          ValueAt(result, cell[2], cell[1])
              /\ (NoDuplicates /\ NoSymmetricPair) =>
                    Nnz = 2 * Cardinality(OffDiagonal)
                            + Cardinality(Coords \ OffDiagonal)
        /\ ~undirected =>
              \A cell \in Cells :
                  Stored(result, cell[1], cell[2]) <=> cell \in Coords

\* An undirected matrix of one off-diagonal and one diagonal edge: 3 entries.
SymmetrizationWitness ==
    /\ IsMatrix /\ fn = "adjacency" /\ undirected
    /\ NoDuplicates /\ NoSymmetricPair
    /\ Cardinality(OffDiagonal) = 1
    /\ Cardinality(Coords) = 2
    /\ Nnz = 3

\* ---------------------------------------------------------------- C5
\* C5: the arity of the records alone decides the value type: pairs give a
\* bool matrix whose stored values are all true; triplets give a numeric
\* matrix whose value at the coordinate of a record that shares it with no
\* other is the third field of that record.
ValueTypeByArity ==
    (IsMatrix /\ Directed) =>
        IF Len(edgelist[1]) = 2
        THEN /\ result.dtype = "bool"
             /\ \A k \in 1..Nnz : result.data[k] = TRUE
        ELSE /\ result.dtype \in {"int64", "float64"}
             /\ \A i \in 1..Len(edgelist) :
                   Cardinality(RecordsAt(RowIndex(i), ColIndex(i))) = 1 =>
                       ValueAt(result, RowIndex(i), ColIndex(i)) =
                           Num(edgelist[i][3].a, edgelist[i][3].b)

\* An int weight and a float weight in one list: both kept, as float64.
ValueTypeWitness ==
    /\ IsMatrix /\ Directed /\ Weighted /\ NoDuplicates
    /\ result.dtype = "float64"
    /\ \E i \in 1..Len(edgelist) : edgelist[i][3].py = "int"
    /\ \E i \in 1..Len(edgelist) :
          /\ edgelist[i][3].py = "float"
          /\ ValueAt(result, RowIndex(i), ColIndex(i)) = Num(1, 0)

\* ---------------------------------------------------------------- C6
\* C6 as claimed: every conversion of the empty list fails with EmptyInput.
EmptyFailsWithEmptyInput ==
    (Returned /\ edgelist = <<>>) => result = Raise("EmptyInput")

\* C6 as amended: every conversion of the empty list fails, with the
\* IndexError of edges[:, 0] on the 1-d array np.array([]); no matrix is
\* returned.
EmptyFailsWithIndexError ==
    (Returned /\ edgelist = <<>>) => result = Raise("IndexError")

\* The undirected adjacency of the empty list was asked for, and failed.
EmptyWitness ==
    /\ Returned /\ edgelist = <<>>
    /\ fn = "adjacency" /\ undirected
    /\ result.kind = "raise"

\* ---------------------------------------------------------------- C7
Malformed ==
    \E i \in 1..Len(edgelist) :
        \/ Len(edgelist[i]) # Len(edgelist[1])
        \/ Len(edgelist[i]) < 2
        \/ Len(edgelist[i]) > 3

\* C7: a list with a record of another arity than the first, or of fewer
\* than 2 or more than 3 fields, is refused: no matrix is returned (whatever
\* the name of the error).
MalformedRejected == (Returned /\ Malformed) => result.kind = "raise"

\* ---------------------------------------------------------------- C8
OutOfRange(f) == f.a # 0 \/ f.b < 0
SomeIndexOutOfRange ==
    \E i \in 1..Len(edgelist) :
        OutOfRange(edgelist[i][1]) \/ OutOfRange(edgelist[i][2])

\* C8: a list of pairs or triplets with an index above 2^31 - 1 or below 0
\* is refused: no index is wrapped into the range and no matrix is returned
\* (whatever the name of the error).
IndexRangeValidated ==
    (Returned /\ ~Malformed /\ SomeIndexOutOfRange) => result.kind = "raise"

\* ---------------------------------------------------------------- C9
RowHasEdge(r) ==
    \E cell \in Coords : cell[1] = r \/ (fn = "adjacency" /\ undirected /\ cell[2] = r)

\* C9: in every returned matrix the column indices of each row are strictly
\* increasing, the row pointers are n_rows + 1 offsets from 0 to nnz, and a
\* row with no edge has equal consecutive row pointers.
RowOrdering ==
    IsMatrix =>
        /\ Len(result.indptr) = result.shape[1] + 1
        /\ result.indptr[1] = 0
        /\ result.indptr[Len(result.indptr)] = Nnz
        /\ Len(result.data) = Nnz
        /\ \A r \in 0..(result.shape[1] - 1) :
              /\ result.indptr[r + 1] <= result.indptr[r + 2]
              /\ ~RowHasEdge(r) => result.indptr[r + 1] = result.indptr[r + 2]
              /\ \A k \in RowSlots(result, r) :
                    /\ result.indices[k] \in 0..(result.shape[2] - 1)
                    /\ (k + 1) \in RowSlots(result, r) =>
                          result.indices[k] < result.indices[k + 1]

\* Row 1 was given as columns 1, 0, 1 and is stored as 0, 1; row 0 is empty.
RowOrderingWitness ==
    /\ IsMatrix
    /\ Len(edgelist) = 3
    /\ \A i \in 1..3 : RowIndex(i) = 1
    /\ ColIndex(1) = 1 /\ ColIndex(2) = 0 /\ ColIndex(3) = 1
    /\ result.indptr = <<0, 0, 2>>
    /\ result.indices = <<0, 1>>

\* ---------------------------------------------------------------- C10
SamePattern(A, B) ==
    /\ A.kind = B.kind
    /\ A.kind = "matrix" =>
          /\ A.shape = B.shape
          /\ A.indptr = B.indptr
          /\ A.indices = B.indices
          /\ A.dtype = B.dtype

\* C10 as claimed: converting a permutation of the list returns the same
\* shape, stored coordinates and values.
OrderIndependent ==
    [][(Returned /\ pc' = "recalled") => result' = result]_vars

AtMostTwoPerCoordinate ==
    \A cell \in Coords : Cardinality(RecordsAt(cell[1], cell[2])) <= 2

\* C10 as amended: converting a permutation of the list returns the same
\* shape and stored coordinates, and the same values when the values are
\* bool or int64 or when no coordinate has more than two records; three
\* float64 weights at one coordinate are added in the order of the records
\* and their rounded sum may depend on it.
OrderIndependentPattern ==
    [][(Returned /\ pc' = "recalled") =>
          /\ SamePattern(result, result')
          /\ (~SomeFloat \/ AtMostTwoPerCoordinate) => result' = result]_vars

\* A list was converted again after an exchange of two different records,
\* the second one moving the float weight of a shared coordinate.
OrderWitness ==
    /\ pc = "recalled"
    /\ result.kind = "matrix"
    /\ Len(edgelist) = 3
    /\ Cardinality(Coords) = 1
    /\ Weighted
    /\ result.dtype = "float64"
    /\ edgelist[2] # edgelist[3]
    /\ result.data = <<Num(1, 2)>>

====
